---- MODULE Spec2Model ----
(***************************************************************************)
(* Verification model of the streaming tool-augmented chat protocol:       *)
(*   - the chat edge function (supabase/functions/chat/index.ts): initial  *)
(*     gateway call, tool round, final / streaming call, map response;     *)
(*   - the client's consumer (components/ModeSelector.tsx, which holds the *)
(*     ChatInterface component, and components/ChatInterface.tsx):         *)
(*     handleSend and the event-stream decode loop of streamChat.          *)
(*                                                                         *)
(* Text is modelled as a sequence of symbols.  One symbol stands for one   *)
(* character or for one fixed run of characters that the code only ever    *)
(* tests as a whole (see the symbol definitions below).                    *)
(***************************************************************************)
EXTENDS Integers, Sequences, FiniteSets, TLC

(***************************************************************************)
(* Bounds of the model.                                                    *)
(***************************************************************************)
\* longest tool_calls list the gateway returns in the model
MaxToolCalls == 2
\* longest event stream, in frames, that the network delivers in the model
MaxFrames == 3

(***************************************************************************)
(* Text helpers (JavaScript String methods over symbol sequences).         *)
(***************************************************************************)
LF == "\\n"
CR == "\\r"
SP == " "
\* the five characters d,a,t,a,colon
DATA == "data:"
COLON == ":"
\* the six characters of the terminal payload
DONE == "[DONE]"
\* the opening of a delta object, up to the quote that opens its content
LB == "{"
\* the closing of a delta object, from the quote that closes its content
RB == "}"
\* a whole delta object that carries tool_calls and no content
TOOLDELTA == "{tool_calls}"
\* characters of streamed content
Letters == {"a", "b"}

StartsWith(s, p) == Len(s) >= Len(p) /\ SubSeq(s, 1, Len(p)) = p
EndsWith(s, p) == Len(s) >= Len(p) /\ SubSeq(s, Len(s) - Len(p) + 1, Len(s)) = p
\* s.slice(n)
Slice(s, n) == SubSeq(s, n + 1, Len(s))
\* s.slice(0, -n)
DropLast(s, n) == SubSeq(s, 1, Len(s) - n)
IsSpace(c) == c \in {SP, CR, LF}

RECURSIVE TrimStart(_)
TrimStart(s) == IF s # << >> /\ IsSpace(Head(s)) THEN TrimStart(Tail(s)) ELSE s

RECURSIVE TrimEnd(_)
TrimEnd(s) == IF s # << >> /\ IsSpace(s[Len(s)]) THEN TrimEnd(DropLast(s, 1)) ELSE s

\* s.trim()
Trim(s) == TrimEnd(TrimStart(s))

\* s.indexOf(c), 1-based; 0 stands for JavaScript's -1
IndexOf(s, c) ==
  IF \E i \in 1..Len(s) : s[i] = c
  THEN CHOOSE i \in 1..Len(s) : s[i] = c /\ \A j \in 1..(i - 1) : s[j] # c
  ELSE 0

\* s.split("\n")
RECURSIVE Split(_)
Split(s) ==
  LET i == IndexOf(s, LF)
  IN IF i = 0 THEN << s >>
     ELSE << SubSeq(s, 1, i - 1) >> \o Split(Slice(s, i))

RECURSIVE Concat(_)
Concat(ss) == IF ss = << >> THEN << >> ELSE Head(ss) \o Concat(Tail(ss))

(***************************************************************************)
(* JSON.parse(jsonStr) followed by parsed.choices?.[0]?.delta?.content.    *)
(* A payload is a delta object exactly when it is LB, content characters,  *)
(* RB; anything else makes JSON.parse (or the property access) throw.      *)
(***************************************************************************)
ParseDelta(js) ==
  IF js = << TOOLDELTA >> THEN [ok |-> TRUE, content |-> << >>]
  ELSE IF Len(js) >= 2 /\ js[1] = LB /\ js[Len(js)] = RB
     /\ \A i \in 2..(Len(js) - 1) : js[i] \in Letters
  THEN [ok |-> TRUE, content |-> SubSeq(js, 2, Len(js) - 1)]
  ELSE [ok |-> FALSE, content |-> << >>]


(***************************************************************************)
(* ======================  The chat edge function  ======================  *)
(***************************************************************************)
VARIABLES
  sreq,             \* the request: [mode, messages, apiKey]
  spc,              \* position of the serve handler
  assistantMessage, \* initialData.choices?.[0]?.message
  idx,              \* position of the for-loop over tool_calls
  toolResults,      \* toolResults
  mapData,          \* mapData
  dispatched,       \* tool functions entered so far, in order
  gwCalls,          \* completion requests the handler itself has issued
  gwStatus,         \* the HTTP status each of them got (0: the fetch rejected)
  body,             \* chunks of the final response not yet read (map path)
  fullContent,      \* fullContent (map path)
  response          \* the handler's HTTP response

svars == << sreq, spc, assistantMessage, idx, toolResults, mapData,
            dispatched, gwCalls, gwStatus, body, fullContent, response >>

\* the client (chat interface)
VARIABLES
  cmode,            \* the mode prop of the chat interface
  conversation,     \* whether activeConversationId is set
  input,            \* input
  isLoading,        \* isLoading
  messages,         \* messages: the in-memory message list
  store,            \* the persisted messages of the conversation
  saveLog,          \* the calls of onSaveMessage, in order
  requests,         \* the requests sent to the chat backend, in order
  cpc,              \* position of handleSend / streamChat
  turn,             \* turns started so far
  now,              \* the next value of Date.now()
  asstId,           \* assistantMessage.id of the turn's placeholder
  buffer,           \* buffer
  assistantContent, \* assistantContent
  pending,          \* bytes of the response body not yet read
  delivered,        \* bytes of the response body read so far
  deltas,           \* the content deltas applied so far, in order
  last,             \* what the latest pass of the decode loop did
  turnOutcome,          \* how the latest turn ended
  before            \* store and messages when the turn started

cvars == << cmode, conversation, input, isLoading, messages, store, saveLog,
            requests, cpc, turn, now, asstId, buffer, assistantContent, pending,
            delivered, deltas, last, turnOutcome, before >>

\* a pure function of the program applied on its own
VARIABLES
  fnName,           \* the function applied ("none" before it is)
  fnArg,            \* its argument
  fnResult          \* what it returned

fvars == << fnName, fnArg, fnResult >>

\* the consumer of a streaming turn
VARIABLES
  abandoned,        \* the turn during whose read the consumer went away (0: none)
  mounted           \* whether the chat interface is mounted

avars == << abandoned, mounted >>

\* the conversations of the page (Index.tsx and useConversations)
VARIABLES
  conversations,        \* conversations: the in-memory conversation list
  activeConversationId, \* activeConversationId (0: null)
  depsLen,              \* conversations.length at the last run of the effects
  tasks,                \* the store calls in flight, with their callers
  nextId,               \* the id the store gives the next row it inserts
  creates,              \* createConversation calls since the latest delete began
  deletedActive,        \* whether that delete was of the active conversation
  ops,                  \* user operations so far
  lastOp                \* the latest store call that returned to the hook

uvars == << conversations, activeConversationId, depsLen, tasks, nextId, creates,
            deletedActive, ops, lastOp >>

vars == << svars, cvars, fvars, avars, uvars >>

\* JavaScript null / undefined, and the truthiness test of if (mapData)
Null == [type |-> "null"]
Truthy(v) == v.type \notin {"null", "false"}

tools == {"web_search", "get_location", "get_weather"}
\* names a gateway may put in a tool call: the declared ones and a stray one
ToolNames == tools \cup {"get_time"}
\* toolCall.function.arguments: a JSON object text, an empty/missing string,
\* or a text that JSON.parse rejects
ArgKinds == {"object", "empty", "malformed"}

\* chat and images are modes the handler knows; video is one it does not
Modes == {"chat", "images", "video"}

\* systemPrompts[mode] || systemPrompts.chat
systemPrompt(mode) ==
  [kind |-> "prompt", of |-> IF mode \in {"chat", "code", "images"} THEN mode ELSE "chat"]

model(mode) ==
  IF mode = "images" THEN "google/gemini-2.5-flash" ELSE "google/gemini-3-pro-preview"

\* a message content string: the base64 images it embeds (their declared
\* subtype) and whether text remains once the images and markers are removed
StringContent(images, hasText) ==
  [kind |-> "string", images |-> images, hasText |-> hasText]

\* a rewrite that does not look at the role of the message
processMessagesForVisionAnyRole(msgs) ==
  [i \in 1..Len(msgs) |->
     LET msg == msgs[i]
     IN IF msg.content.kind = "string" /\ Len(msg.content.images) > 0
        THEN [role |-> msg.role,
              content |-> [kind |-> "parts",
                           parts |-> [j \in 1..Len(msg.content.images) |->
                                        [type |-> "image_url",
                                         mime |-> IF msg.content.images[j] = "jpg"
                                                  THEN "jpeg" ELSE msg.content.images[j]]]
                                     \o << [type |-> "text",
                                            text |-> IF msg.content.hasText
                                                     THEN "text" ELSE "default"] >>]]
        ELSE msg]

\* lines 191-236
processMessagesForVision(msgs) ==
  [i \in 1..Len(msgs) |->
     LET msg == msgs[i]
     IN IF msg.role = "user" /\ msg.content.kind = "string"
           /\ Len(msg.content.images) > 0
        THEN [role |-> msg.role,
              content |-> [kind |-> "parts",
                           parts |-> [j \in 1..Len(msg.content.images) |->
                                        [type |-> "image_url",
                                         mime |-> IF msg.content.images[j] = "jpg"
                                                  THEN "jpeg" ELSE msg.content.images[j]]]
                                     \o << [type |-> "text",
                                            text |-> IF msg.content.hasText
                                                     THEN "text" ELSE "default"] >>]]
        ELSE msg]

\* the conversation the client sends in the model: a user message with an
\* embedded jpg image and no other text, an assistant answer, a user message
RequestMessages ==
  { << [role |-> "user", content |-> StringContent(<< "jpg" >>, FALSE)],
       [role |-> "assistant", content |-> StringContent(<< >>, TRUE)],
       [role |-> "user", content |-> StringContent(<< >>, TRUE)] >> }

Requests ==
  [mode : Modes, messages : RequestMessages, apiKey : BOOLEAN]

\* [system, ...processedMessages]
baseMessages ==
  << [role |-> "system", content |-> systemPrompt(sreq.mode)] >>
    \o processMessagesForVision(sreq.messages)

(***************************************************************************)
(* What the gateway may answer.                                            *)
(***************************************************************************)
\* statuses with !response.ok
ErrorStatus == {429, 402, 500}

ToolCall(i, name, args) == [id |-> << "call", i >>, name |-> name, arguments |-> args]

ToolCallLists ==
  UNION { { [i \in 1..n |-> ToolCall(i, names[i], args[i])] :
              names \in [1..n -> ToolNames], args \in [1..n -> ArgKinds] } :
          n \in 1..MaxToolCalls }

\* choices[0].message of the initial answer (absent when choices is empty)
AssistantMessages ==
  { [present |-> FALSE, content |-> "", tool_calls |-> << >>] }
    \cup { [present |-> TRUE, content |-> c, tool_calls |-> << >>] : c \in {"", "text"} }
    \cup { [present |-> TRUE, content |-> "", tool_calls |-> tcs] : tcs \in ToolCallLists }

(***************************************************************************)
(* get_location: the text the geography model returns, as symbols.         *)
(***************************************************************************)
\* the three backticks of a code fence
FENCE == "fence"
\* the characters j,s,o,n right after an opening fence
JSONTAG == "json"
\* JSON texts of a location answer
ObjRoute2 == "{route,2 locations}"
ObjRoute1 == "{route,1 location}"
ObjPlain == "{1 location}"
NullText == "null"
\* text that is not JSON
Prose == "Here are the places"

\* JSON.parse of a location answer (white space around the value is allowed)
ParseJSON(text) ==
  IF Trim(text) = << ObjRoute2 >>
    THEN [ok |-> TRUE, value |-> [type |-> "object", message |-> "m", locations |-> 2, route |-> TRUE]]
  ELSE IF Trim(text) = << ObjRoute1 >>
    THEN [ok |-> TRUE, value |-> [type |-> "object", message |-> "m", locations |-> 1, route |-> TRUE]]
  ELSE IF Trim(text) = << ObjPlain >>
    THEN [ok |-> TRUE, value |-> [type |-> "object", message |-> "m", locations |-> 1, route |-> FALSE]]
  ELSE IF Trim(text) = << NullText >>
    THEN [ok |-> TRUE, value |-> Null]
  ELSE [ok |-> FALSE, value |-> Null]

\* answers of the geography model used in the model
LocContents ==
  { << FENCE, JSONTAG, LF, ObjRoute2, LF, FENCE >>,
    << ObjRoute1 >>,
    << NullText >>,
    << Prose, SP, ObjPlain >> }

\* the answer of the gateway to a tool's own request
ToolReplies(name) ==
  { [ok |-> FALSE, content |-> << >>] }
    \cup { [ok |-> TRUE, content |-> c] :
             c \in IF name = "get_location" THEN LocContents
                   ELSE { << >>, << "answer" >> } }

executeWebSearch(reply) ==
  IF ~reply.ok THEN "I couldn't complete the web search at this time."
  ELSE IF reply.content # << >> THEN "search answer"
  ELSE "No search results found."

getWeatherData(reply) ==
  IF ~reply.ok THEN "I couldn't retrieve weather data at this time."
  ELSE IF reply.content # << >> THEN "weather answer"
  ELSE "Weather data unavailable."

\* a stripping that takes the three backticks and leaves the json tag
StripFenceKeepsTag(content) ==
  LET c0 == Trim(content)
      c1 == IF StartsWith(c0, << FENCE >>) THEN Slice(c0, 1) ELSE c0
  IN IF EndsWith(c1, << FENCE >>) THEN DropLast(c1, 1) ELSE c1

\* lines 149-152: cleanContent before the final trim
StripFence(content) ==
  LET c0 == Trim(content)
      c1 == IF StartsWith(c0, << FENCE, JSONTAG >>) THEN Slice(c0, 2)
            ELSE IF StartsWith(c0, << FENCE >>) THEN Slice(c0, 1)
            ELSE c0
  IN IF EndsWith(c1, << FENCE >>) THEN DropLast(c1, 1) ELSE c1

\* a parsing step that throws instead of degrading: the failure surfaces as
\* a payload of type "thrown"
ParseLocationThrows(content) ==
  LET parsed == ParseJSON(Trim(StripFence(content)))
  IN IF parsed.ok THEN parsed.value ELSE [type |-> "thrown"]

\* lines 148-156: strip the code fence, parse, degrade on failure
ParseLocation(content) ==
  LET parsed == ParseJSON(Trim(StripFence(content)))
  IN IF parsed.ok THEN parsed.value
     ELSE [type |-> "object", message |-> content, locations |-> 0, route |-> FALSE]

\* lines 141-157
getLocationData(reply) ==
  IF ~reply.ok
  THEN [type |-> "object", message |-> "Couldn't find location data.",
        locations |-> 0, route |-> FALSE]
  ELSE ParseLocation(reply.content)


(***************************************************************************)
(* Event-stream frames (shared by the edge function's map path and by the  *)
(* client's decode loop).                                                  *)
(***************************************************************************)
FrameA == << DATA, SP, LB, "a", RB, LF >>
FrameB == << DATA, SP, LB, "b", RB, CR, LF >>
FrameDone == << DATA, SP, DONE, LF >>
FrameBlank == << LF >>
FrameTool == << DATA, SP, TOOLDELTA, LF >>

\* the body of the final gateway answer, and the chunks in which
\* reader.read() returns it
FinalStream == FrameA \o FrameBlank \o FrameTool \o FrameB \o FrameDone

\* the same stream in one chunk, and cut inside the payload of FrameB
ServerBodies ==
  { << FinalStream >>,
    << SubSeq(FinalStream, 1, 14), Slice(FinalStream, 14) >> }

(***************************************************************************)
(* The serve handler, one action per resumption after an await.            *)
(***************************************************************************)
Respond(status, type, payload) ==
  /\ response' = [status |-> status, type |-> type, body |-> payload]
  /\ spc' = "responded"

\* lines 461-467: the catch of the handler
Catch == Respond(500, "json", [error |-> "exception message"])

GwCall(kind, msgs, stream, withTools) ==
  [call |-> kind, model |-> model(sreq.mode), messages |-> msgs,
   stream |-> stream,
   tools |-> IF withTools THEN tools ELSE {},
   tool_choice |-> IF withTools THEN "auto" ELSE "undefined"]

\* the initial request with the tool schema attached in every mode
initialRequestAlwaysTools == GwCall("initial", baseMessages, FALSE, TRUE)

\* lines 295-310
initialRequest == GwCall("initial", baseMessages, FALSE, sreq.mode # "images")

\* the final request with the tool schema attached again
finalRequestWithTools ==
  GwCall("final", baseMessages \o << assistantMessage >> \o toolResults, TRUE, TRUE)

\* lines 367-385
finalRequest ==
  GwCall("final", baseMessages \o << assistantMessage >> \o toolResults, TRUE, FALSE)

\* the streaming request without the system prompt
streamRequestNoSystem ==
  GwCall("stream", processMessagesForVision(sreq.messages), TRUE, FALSE)

\* lines 433-447
streamRequest == GwCall("stream", baseMessages, TRUE, FALSE)

\* lines 245-249: the credential is not configured
ServeNoKey ==
  /\ spc = "start" /\ ~sreq.apiKey
  /\ Catch
  /\ UNCHANGED << uvars, avars, fvars, cvars, sreq, assistantMessage, idx, toolResults, mapData, dispatched,
                  gwCalls, gwStatus, body, fullContent >>

\* the initial fetch rejects, or its body is not JSON
InitialCallThrows ==
  /\ spc = "start" /\ sreq.apiKey
  /\ gwCalls' = Append(gwCalls, initialRequest)
  /\ gwStatus' = Append(gwStatus, 0)
  /\ Catch
  /\ UNCHANGED << uvars, avars, fvars, cvars, sreq, assistantMessage, idx, toolResults, mapData, dispatched,
                  body, fullContent >>

\* lines 312-331
InitialCallNotOk(status) ==
  /\ spc = "start" /\ sreq.apiKey
  /\ gwCalls' = Append(gwCalls, initialRequest)
  /\ gwStatus' = Append(gwStatus, status)
  /\ IF status = 429
       THEN Respond(429, "json", [error |-> "Rate limit exceeded. Please try again later."])
     ELSE IF status = 402
       THEN Respond(402, "json", [error |-> "Usage limit reached. Please add credits."])
     ELSE Respond(500, "json", [error |-> "AI service error: <gateway text>"])
  /\ UNCHANGED << uvars, avars, fvars, cvars, sreq, assistantMessage, idx, toolResults, mapData, dispatched,
                  body, fullContent >>

\* lines 333-341: the decision point
InitialCallOk(msg) ==
  /\ spc = "start" /\ sreq.apiKey
  /\ gwCalls' = Append(gwCalls, initialRequest)
  /\ gwStatus' = Append(gwStatus, 200)
  /\ assistantMessage' = msg
  /\ spc' = IF Len(msg.tool_calls) > 0 THEN "tools" ELSE "stream"
  /\ UNCHANGED << uvars, avars, fvars, cvars, sreq, idx, toolResults, mapData, dispatched, body, fullContent,
                  response >>

toolCall == assistantMessage.tool_calls[idx]

\* the result put in front of the earlier ones instead of after them
PushResultInFront(result) ==
  /\ toolResults' = << [role |-> "tool", tool_call_id |-> toolCall.id,
                        content |-> result] >> \o toolResults
  /\ idx' = idx + 1
  /\ spc' = IF idx = Len(assistantMessage.tool_calls) THEN "final" ELSE "tools"

\* lines 359-364, and the loop's advance
PushResult(result) ==
  /\ toolResults' = Append(toolResults,
                           [role |-> "tool", tool_call_id |-> toolCall.id,
                            content |-> result])
  /\ idx' = idx + 1
  /\ spc' = IF idx = Len(assistantMessage.tool_calls) THEN "final" ELSE "tools"

\* the entry of a tool function, with how its own gateway request ended and
\* the content of the answer it got
Dispatch(how, content) ==
  [call |-> idx, name |-> toolCall.name, outcome |-> how, content |-> content]

Text(s) == [kind |-> "text", text |-> s]
JsonText(v) == [kind |-> "json", value |-> v]

\* arguments that do not parse taken as an empty object: the call is skipped
\* with an empty result and the loop goes on
ToolArgsIgnored ==
  /\ spc = "tools" /\ toolCall.arguments = "malformed"
  /\ PushResult(Text(""))
  /\ UNCHANGED << uvars, avars, fvars, cvars, sreq, assistantMessage, mapData, dispatched, gwCalls, gwStatus, body,
                  fullContent, response >>

\* line 345: JSON.parse of the arguments throws
ToolArgsThrow ==
  /\ spc = "tools" /\ toolCall.arguments = "malformed"
  /\ Catch
  /\ UNCHANGED << uvars, avars, fvars, cvars, sreq, assistantMessage, idx, toolResults, mapData, dispatched,
                  gwCalls, gwStatus, body, fullContent >>

\* an unknown tool answered with an error text
ToolUnknownSaysSo ==
  /\ spc = "tools" /\ toolCall.arguments # "malformed"
  /\ toolCall.name \notin tools
  /\ PushResult(Text("unknown tool"))
  /\ UNCHANGED << uvars, avars, fvars, cvars, sreq, assistantMessage, mapData, dispatched, gwCalls, gwStatus, body,
                  fullContent, response >>

\* lines 347-357 with no branch taken
ToolUnknown ==
  /\ spc = "tools" /\ toolCall.arguments # "malformed"
  /\ toolCall.name \notin tools
  /\ PushResult(Text(""))
  /\ UNCHANGED << uvars, avars, fvars, cvars, sreq, assistantMessage, mapData, dispatched, gwCalls, gwStatus, body,
                  fullContent, response >>

\* the tool's own fetch rejects, or its answer is not JSON
ToolDispatchThrows ==
  /\ spc = "tools" /\ toolCall.arguments # "malformed"
  /\ toolCall.name \in tools
  /\ dispatched' = Append(dispatched, Dispatch("threw", << >>))
  /\ Catch
  /\ UNCHANGED << uvars, avars, fvars, cvars, sreq, assistantMessage, idx, toolResults, mapData, gwCalls, gwStatus,
                  body, fullContent >>

\* a dispatch that keeps the payload of the first get_location call as mapData
ToolDispatchKeepsFirstMap(reply) ==
  /\ spc = "tools" /\ toolCall.arguments # "malformed"
  /\ toolCall.name \in tools
  /\ reply \in ToolReplies(toolCall.name)
  /\ dispatched' = Append(dispatched, Dispatch(IF reply.ok THEN "ok" ELSE "not ok", reply.content))
  /\ IF toolCall.name = "web_search"
       THEN PushResult(Text(executeWebSearch(reply))) /\ UNCHANGED mapData
     ELSE IF toolCall.name = "get_location"
       THEN LET locationData == getLocationData(reply)
            IN /\ mapData' = IF Truthy(mapData) THEN mapData ELSE locationData
               /\ PushResult(JsonText(locationData))
     ELSE PushResult(Text(getWeatherData(reply))) /\ UNCHANGED mapData
  /\ UNCHANGED << uvars, avars, fvars, cvars, sreq, assistantMessage, gwCalls, gwStatus, body, fullContent, response >>

\* lines 349-357
ToolDispatch(reply) ==
  /\ spc = "tools" /\ toolCall.arguments # "malformed"
  /\ toolCall.name \in tools
  /\ reply \in ToolReplies(toolCall.name)
  /\ dispatched' = Append(dispatched, Dispatch(IF reply.ok THEN "ok" ELSE "not ok", reply.content))
  /\ IF toolCall.name = "web_search"
       THEN PushResult(Text(executeWebSearch(reply))) /\ UNCHANGED mapData
     ELSE IF toolCall.name = "get_location"
       THEN LET locationData == getLocationData(reply)
            IN /\ mapData' = locationData
               /\ PushResult(JsonText(locationData))
     ELSE PushResult(Text(getWeatherData(reply))) /\ UNCHANGED mapData
  /\ UNCHANGED << uvars, avars, fvars, cvars, sreq, assistantMessage, gwCalls, gwStatus, body, fullContent, response >>

FinalCallThrows ==
  /\ spc = "final"
  /\ gwCalls' = Append(gwCalls, finalRequest)
  /\ gwStatus' = Append(gwStatus, 0)
  /\ Catch
  /\ UNCHANGED << uvars, avars, fvars, cvars, sreq, assistantMessage, idx, toolResults, mapData, dispatched,
                  body, fullContent >>

\* lines 387-394
FinalCallNotOk(status) ==
  /\ spc = "final"
  /\ gwCalls' = Append(gwCalls, finalRequest)
  /\ gwStatus' = Append(gwStatus, status)
  /\ Respond(500, "json", [error |-> "AI service error"])
  /\ UNCHANGED << uvars, avars, fvars, cvars, sreq, assistantMessage, idx, toolResults, mapData, dispatched,
                  body, fullContent >>

\* lines 396-402 and 427-429
FinalCallOk(chunks) ==
  /\ spc = "final"
  /\ gwCalls' = Append(gwCalls, finalRequest)
  /\ gwStatus' = Append(gwStatus, 200)
  /\ IF Truthy(mapData)
       THEN /\ spc' = "mapread"
            /\ body' = chunks
            /\ UNCHANGED response
       ELSE /\ Respond(200, "event-stream", [stream |-> chunks])
            /\ UNCHANGED body
  /\ UNCHANGED << uvars, avars, fvars, cvars, sreq, assistantMessage, idx, toolResults, mapData, dispatched,
                  fullContent >>

\* lines 408-415: the content of the data lines of one chunk
RECURSIVE LinesContent(_)
LinesContent(lines) ==
  IF lines = << >> THEN << >>
  ELSE LET line == Head(lines)
           parsed == ParseDelta(Trim(Slice(line, 2)))
       IN (IF StartsWith(line, << DATA, SP >>) /\ line # << DATA, SP, DONE >>
              /\ parsed.ok
           THEN parsed.content ELSE << >>)
          \o LinesContent(Tail(lines))

\* lines 403-415: one read of the final stream
MapRead ==
  /\ spc = "mapread" /\ body # << >>
  /\ fullContent' = fullContent \o LinesContent(Split(Head(body)))
  /\ body' = Tail(body)
  /\ UNCHANGED << uvars, avars, fvars, cvars, sreq, spc, assistantMessage, idx, toolResults, mapData,
                  dispatched, gwCalls, gwStatus, response >>

\* reader.read() rejects
MapReadThrows ==
  /\ spc = "mapread"
  /\ Catch
  /\ UNCHANGED << uvars, avars, fvars, cvars, sreq, assistantMessage, idx, toolResults, mapData, dispatched,
                  gwCalls, gwStatus, body, fullContent >>

\* lines 405 and 419-424
MapReadDone ==
  /\ spc = "mapread" /\ body = << >>
  /\ Respond(200, "json", [content |-> fullContent, mapData |-> mapData])
  /\ UNCHANGED << uvars, avars, fvars, cvars, sreq, assistantMessage, idx, toolResults, mapData, dispatched,
                  gwCalls, gwStatus, body, fullContent >>

StreamCallThrows ==
  /\ spc = "stream"
  /\ gwCalls' = Append(gwCalls, streamRequest)
  /\ gwStatus' = Append(gwStatus, 0)
  /\ Catch
  /\ UNCHANGED << uvars, avars, fvars, cvars, sreq, assistantMessage, idx, toolResults, mapData, dispatched,
                  body, fullContent >>

\* lines 449-456
StreamCallNotOk(status) ==
  /\ spc = "stream"
  /\ gwCalls' = Append(gwCalls, streamRequest)
  /\ gwStatus' = Append(gwStatus, status)
  /\ Respond(500, "json", [error |-> "AI service error: <gateway text>"])
  /\ UNCHANGED << uvars, avars, fvars, cvars, sreq, assistantMessage, idx, toolResults, mapData, dispatched,
                  body, fullContent >>

\* lines 458-460
StreamCallOk(chunks) ==
  /\ spc = "stream"
  /\ gwCalls' = Append(gwCalls, streamRequest)
  /\ gwStatus' = Append(gwStatus, 200)
  /\ Respond(200, "event-stream", [stream |-> chunks])
  /\ UNCHANGED << uvars, avars, fvars, cvars, sreq, assistantMessage, idx, toolResults, mapData, dispatched,
                  body, fullContent >>

InitServer ==
  /\ sreq \in Requests
  /\ spc = "start"
  /\ assistantMessage = [present |-> FALSE, content |-> "", tool_calls |-> << >>]
  /\ idx = 1
  /\ toolResults = << >>
  /\ mapData = Null
  /\ dispatched = << >>
  /\ gwCalls = << >>
  /\ gwStatus = << >>
  /\ body = << >>
  /\ fullContent = << >>
  /\ response = [status |-> 0, type |-> "none", body |-> [none |-> TRUE]]

NextServer ==
  \/ ServeNoKey
  \/ InitialCallThrows
  \/ \E status \in ErrorStatus : InitialCallNotOk(status)
  \/ \E msg \in AssistantMessages : InitialCallOk(msg)
  \/ ToolArgsThrow
  \/ ToolUnknown
  \/ ToolDispatchThrows
  \/ \E reply \in UNION { ToolReplies(n) : n \in tools } : ToolDispatch(reply)
  \/ FinalCallThrows
  \/ \E status \in ErrorStatus : FinalCallNotOk(status)
  \/ \E chunks \in ServerBodies : FinalCallOk(chunks)
  \/ MapRead
  \/ MapReadThrows
  \/ MapReadDone
  \/ StreamCallThrows
  \/ \E status \in ErrorStatus : StreamCallNotOk(status)
  \/ \E chunks \in ServerBodies : StreamCallOk(chunks)



(***************************************************************************)
(* ==================  The client: handleSend, streamChat  ==============  *)
(***************************************************************************)
\* turns one chat interface starts in the model
MaxTurns == 2

(***************************************************************************)
(* lines 229-256: the inner loop of streamChat over the complete lines of   *)
(* the buffer.  st.notified are the contents given to setMessages,          *)
(* st.failed the lines whose payload JSON.parse rejected, st.afterFail      *)
(* whether a line was taken from the buffer after such a rejection.         *)
(***************************************************************************)
\* a delta put in front of the accumulated content
ApplyDeltaInFront(st, content) ==
  [st EXCEPT !.content = content \o @,
             !.deltas = Append(@, content),
             !.notified = Append(@, content \o st.content)]

\* lines 241-251: assistantContent += content, and the setMessages that
\* gives the placeholder the accumulated content
ApplyDelta(st, content) ==
  [st EXCEPT !.content = @ \o content,
             !.deltas = Append(@, content),
             !.notified = Append(@, st.content \o content)]

RECURSIVE InnerLoop(_)
InnerLoop(st) ==
  LET newlineIndex == IndexOf(st.buffer, LF)
  IN IF newlineIndex = 0 THEN st
     ELSE
       LET line0 == SubSeq(st.buffer, 1, newlineIndex - 1)
           line == IF EndsWith(line0, << CR >>) THEN DropLast(line0, 1) ELSE line0
           s1 == [st EXCEPT !.buffer = Slice(st.buffer, newlineIndex),
                            !.afterFail = (st.failed # << >>)]
           jsonStr == Trim(Slice(line, 2))
           parsed == ParseDelta(jsonStr)
       IN IF StartsWith(line, << COLON >>) \/ Trim(line) = << >> THEN InnerLoop(s1)
          ELSE IF ~StartsWith(line, << DATA, SP >>) THEN InnerLoop(s1)
          ELSE IF jsonStr = << DONE >> THEN [s1 EXCEPT !.done = TRUE]
          ELSE IF ~parsed.ok THEN InnerLoop([s1 EXCEPT !.failed = Append(@, line)])
          ELSE IF parsed.content = << >> THEN InnerLoop(s1)
          ELSE InnerLoop(ApplyDelta(s1, parsed.content))

\* lines 226-256: one pass of the outer loop, for the chunk just read
Decode(buf, content, chunk) ==
  InnerLoop([buffer |-> buf \o chunk, content |-> content, deltas |-> << >>,
             notified |-> << >>, failed |-> << >>, afterFail |-> FALSE,
             done |-> FALSE])

NoPass == [failed |-> << >>, afterFail |-> FALSE, done |-> FALSE, notified |-> << >>]

(***************************************************************************)
(* Event streams of the model.                                             *)
(***************************************************************************)
FrameComment == << COLON, "a", LF >>
\* a delta object cut in two by a line break
FrameHalf1 == << DATA, SP, LB, "a", LF >>
FrameHalf2 == << RB, LF >>
\* a data line without the space after the colon
FrameNoSpace == << DATA, LB, "b", RB, LF >>
\* a data line not (yet) ended by a line break
FrameTail == << DATA, SP, LB, "b", RB >>

DecodeFrames ==
  { FrameA, FrameB, FrameDone, FrameBlank, FrameComment, FrameHalf1, FrameHalf2,
    FrameNoSpace, FrameTail }

Streams ==
  UNION { { Concat(fs) : fs \in [1..n -> DecodeFrames] } : n \in 0..MaxFrames }

\* the single JSON object {content, mapData} of the map path, as body text
MAPJSON == "{content,mapData}"

\* response bodies of a whole turn in the model
ClientBodies ==
  { FrameA \o FrameBlank \o FrameB \o FrameDone,
    FrameComment,
    << MAPJSON >> }

(***************************************************************************)
(* handleSend and streamChat, one action per resumption after an await.    *)
(***************************************************************************)
Message(id, role, content) == [id |-> id, role |-> role, content |-> content]

userContent == << "q" >>

\* lines 354-360: the update of the catch block
DropEmptyAssistant(prev) ==
  IF prev # << >> /\ prev[Len(prev)].role = "assistant"
     /\ prev[Len(prev)].content = << >>
  THEN DropLast(prev, 1)
  ELSE prev

\* lines 346-363: catch and finally
CatchSend ==
  /\ messages' = DropEmptyAssistant(messages)
  /\ isLoading' = FALSE
  /\ turnOutcome' = "failed"
  /\ cpc' = "idle"

\* a turn without error that ends without resetting isLoading
FinallyKeepsLoading ==
  /\ isLoading' = isLoading
  /\ turnOutcome' = "done"
  /\ cpc' = "idle"

\* lines 361-363 after a turn without error
FinallySend ==
  /\ isLoading' = FALSE
  /\ turnOutcome' = "done"
  /\ cpc' = "idle"

\* Index.tsx handleSaveMessage and useConversations addMessage: nothing is
\* stored without an active conversation or when the insert fails
Saved(role, content, insertOk) ==
  IF conversation /\ insertOk
  THEN Append(store, [role |-> role, content |-> content])
  ELSE store

\* the user types a message, at any moment: the text area stays enabled
\* while a turn is in flight.  The model follows one conversation: no event
\* reaches an unmounted interface, and no new turn is followed once the
\* interface shows another conversation.
TypeInput ==
  /\ mounted /\ abandoned = 0
  /\ cpc # "off" /\ input = << >> /\ turn < MaxTurns
  /\ input' = userContent
  /\ UNCHANGED << uvars, avars, fvars, svars, cmode, conversation, isLoading, messages, store, saveLog,
                  requests, cpc, turn, now, asstId, buffer, assistantContent,
                  pending, delivered, deltas, last, turnOutcome, before >>

\* a handleSend whose guard does not look at isLoading
HandleSendWhileLoading ==
  /\ mounted /\ abandoned = 0
  /\ Trim(input) # << >>
  /\ messages' = Append(messages, Message(now, "user", Trim(input)))
  /\ now' = now + 1
  /\ input' = << >>
  /\ isLoading' = TRUE
  /\ turn' = turn + 1
  /\ before' = [store |-> store, messages |-> messages, saves |-> Len(saveLog),
                user |-> Trim(input)]
  /\ turnOutcome' = "running"
  /\ saveLog' = Append(saveLog, [role |-> "user", content |-> Trim(input)])
  /\ cpc' = "saveUser"
  /\ UNCHANGED << uvars, avars, fvars, svars, cmode, conversation, store, requests, asstId, buffer,
                  assistantContent, pending, delivered, deltas, last >>

\* lines 283-318: a send event (button or Enter key), up to the first await.
\* The state updates of a click or key event are rendered before the next
\* event is handled, so the guard reads the isLoading the last handler set.
HandleSend ==
  /\ mounted /\ abandoned = 0
  /\ Trim(input) # << >> /\ ~isLoading
  /\ messages' = Append(messages, Message(now, "user", Trim(input)))
  /\ now' = now + 1
  /\ input' = << >>
  /\ isLoading' = TRUE
  /\ turn' = turn + 1
  /\ before' = [store |-> store, messages |-> messages, saves |-> Len(saveLog),
                user |-> Trim(input)]
  /\ turnOutcome' = "running"
  /\ saveLog' = Append(saveLog, [role |-> "user", content |-> Trim(input)])
  /\ cpc' = "saveUser"
  /\ UNCHANGED << uvars, avars, fvars, svars, cmode, conversation, store, requests, asstId, buffer,
                  assistantContent, pending, delivered, deltas, last >>

\* lines 319-324 and 176-199: the user message is saved; the request goes out
SaveUser(insertOk) ==
  /\ cpc = "saveUser"
  /\ store' = Saved("user", before.user, insertOk)
  /\ IF cmode = "images"
       THEN /\ cpc' = "image"
            /\ requests' = Append(requests, [to |-> "generate-image", prompt |-> before.user])
       ELSE /\ cpc' = "fetch"
            /\ requests' =
                 Append(requests,
                        [to |-> "chat", mode |-> cmode,
                         messages |-> [i \in 1..Len(before.messages) |->
                                         [role |-> before.messages[i].role,
                                          content |-> before.messages[i].content]]
                                      \o << [role |-> "user", content |-> before.user] >>])
  /\ UNCHANGED << uvars, avars, fvars, svars, cmode, conversation, input, isLoading, messages, saveLog, turn,
                  now, asstId, buffer, assistantContent, pending, delivered,
                  deltas, last, turnOutcome, before >>

\* lines 262-281 and 346: generateImage rejects or answers with an error
ImageFails ==
  /\ cpc = "image"
  /\ CatchSend
  /\ UNCHANGED << uvars, avars, fvars, svars, cmode, conversation, input, store, saveLog, requests, turn, now,
                  asstId, buffer, assistantContent, pending, delivered, deltas,
                  last, before >>

\* lines 324-337
ImageOk ==
  /\ cpc = "image"
  /\ messages' = Append(messages, Message(now + 1, "assistant", << "image text" >>))
  /\ now' = now + 2
  /\ saveLog' = Append(saveLog, [role |-> "assistant", content |-> << "image text" >>])
  /\ cpc' = "saveImage"
  /\ UNCHANGED << uvars, avars, fvars, svars, cmode, conversation, input, isLoading, store, requests, turn,
                  asstId, buffer, assistantContent, pending, delivered, deltas,
                  last, turnOutcome, before >>

\* lines 336-338 and the finally
SaveImage(insertOk) ==
  /\ cpc = "saveImage"
  /\ store' = Saved("assistant", << "image text" >>, insertOk)
  /\ FinallySend
  /\ UNCHANGED << uvars, avars, fvars, svars, cmode, conversation, input, messages, saveLog, requests, turn,
                  now, asstId, buffer, assistantContent, pending, delivered,
                  deltas, last, before >>

\* lines 189-207: fetch rejects, the answer is not ok, or it has no body
FetchFails ==
  /\ cpc = "fetch"
  /\ CatchSend
  /\ UNCHANGED << uvars, avars, fvars, svars, cmode, conversation, input, store, saveLog, requests, turn, now,
                  asstId, buffer, assistantContent, pending, delivered, deltas,
                  last, before >>

\* lines 206-220: the answer is ok; the placeholder is added
FetchOk(bytes) ==
  /\ cpc = "fetch"
  /\ asstId' = now
  /\ now' = now + 1
  /\ messages' = Append(messages, Message(now, "assistant", << >>))
  /\ assistantContent' = << >>
  /\ buffer' = << >>
  /\ pending' = bytes
  /\ delivered' = << >>
  /\ deltas' = << >>
  /\ last' = NoPass
  /\ cpc' = "read"
  /\ UNCHANGED << uvars, avars, fvars, svars, cmode, conversation, input, isLoading, store, saveLog, requests,
                  turn, turnOutcome, before >>

\* lines 245-251: the placeholder gets the accumulated content
SetContent(prev, id, content) ==
  [i \in 1..Len(prev) |->
     IF prev[i].id = id THEN [prev[i] EXCEPT !.content = content] ELSE prev[i]]

\* lines 223-256: reader.read() returns the next n bytes
ReadChunk(n) ==
  /\ cpc = "read" /\ n \in 1..Len(pending)
  /\ LET r == Decode(buffer, assistantContent, SubSeq(pending, 1, n))
     IN /\ buffer' = r.buffer
        /\ assistantContent' = r.content
        /\ deltas' = deltas \o r.deltas
        /\ messages' = IF r.notified # << >>
                       THEN SetContent(messages, asstId, r.notified[Len(r.notified)])
                       ELSE messages
        /\ last' = [failed |-> r.failed, afterFail |-> r.afterFail, done |-> r.done,
                    notified |-> r.notified]
  /\ pending' = Slice(pending, n)
  /\ delivered' = delivered \o SubSeq(pending, 1, n)
  /\ UNCHANGED << uvars, avars, fvars, svars, cmode, conversation, input, isLoading, store, saveLog, requests,
                  cpc, turn, now, asstId, turnOutcome, before >>

\* a catch that saved what had been streamed so far
ReadFailsSavesPartial ==
  /\ cpc = "read"
  /\ CatchSend
  /\ saveLog' = Append(saveLog, [role |-> "assistant", content |-> assistantContent])
  /\ store' = Saved("assistant", assistantContent, TRUE)
  /\ UNCHANGED << uvars, avars, fvars, svars, cmode, conversation, input, requests, turn, now,
                  asstId, buffer, assistantContent, pending, delivered, deltas,
                  last, before >>

\* reader.read() rejects: the connection broke
ReadFails ==
  /\ cpc = "read"
  /\ CatchSend
  /\ UNCHANGED << uvars, avars, fvars, svars, cmode, conversation, input, store, saveLog, requests, turn, now,
                  asstId, buffer, assistantContent, pending, delivered, deltas,
                  last, before >>

\* an end of stream that saves the accumulated content even when it is empty
ReadDoneSavesEmpty ==
  /\ cpc = "read" /\ pending = << >>
  /\ saveLog' = Append(saveLog, [role |-> "assistant", content |-> assistantContent])
  /\ cpc' = "saveAssistant"
  /\ UNCHANGED << isLoading, turnOutcome >>
  /\ UNCHANGED << uvars, avars, fvars, svars, cmode, conversation, input, messages, store, requests, turn, now,
                  asstId, buffer, assistantContent, pending, delivered, deltas,
                  last, before >>

\* lines 224, 259 and 340-345: the stream ended
ReadDone ==
  /\ cpc = "read" /\ pending = << >>
  /\ IF assistantContent # << >>
       THEN /\ saveLog' = Append(saveLog, [role |-> "assistant", content |-> assistantContent])
            /\ cpc' = "saveAssistant"
            /\ UNCHANGED << isLoading, turnOutcome >>
       ELSE /\ FinallySend
            /\ UNCHANGED saveLog
  /\ UNCHANGED << uvars, avars, fvars, svars, cmode, conversation, input, messages, store, requests, turn, now,
                  asstId, buffer, assistantContent, pending, delivered, deltas,
                  last, before >>

\* lines 342-344 and the finally
SaveAssistant(insertOk) ==
  /\ cpc = "saveAssistant"
  /\ store' = Saved("assistant", assistantContent, insertOk)
  /\ FinallySend
  /\ UNCHANGED << uvars, avars, fvars, svars, cmode, conversation, input, messages, saveLog, requests, turn,
                  now, asstId, buffer, assistantContent, pending, delivered,
                  deltas, last, before >>

\* a conversation with one earlier exchange, loaded from the store
History ==
  << [role |-> "user", content |-> userContent],
     [role |-> "assistant", content |-> << "a" >>] >>

InitClientCommon ==
  /\ input = << >>
  /\ store = History
  /\ saveLog = << >>
  /\ requests = << >>
  /\ turn = 0
  /\ buffer = << >>
  /\ assistantContent = << >>
  /\ delivered = << >>
  /\ deltas = << >>
  /\ last = NoPass

\* the chat interface as mounted
InitClient ==
  /\ InitClientCommon
  /\ conversation \in BOOLEAN
  /\ cmode \in {"chat", "images"}
  /\ isLoading = FALSE
  /\ messages = [i \in 1..Len(History) |-> Message(i, History[i].role, History[i].content)]
  /\ cpc = "idle"
  /\ now = Len(History) + 1
  /\ asstId = 0
  /\ pending = << >>
  /\ turnOutcome = "none"
  /\ before = [store |-> store, messages |-> messages, saves |-> 0, user |-> << >>]

\* streamChat right after line 220, about to read a body
InitDecode ==
  /\ InitClientCommon
  /\ conversation = TRUE
  /\ cmode = "chat"
  /\ isLoading = TRUE
  /\ messages = << Message(1, "user", userContent), Message(2, "assistant", << >>) >>
  /\ cpc = "read"
  /\ now = 3
  /\ asstId = 2
  /\ pending \in Streams
  /\ turnOutcome = "running"
  /\ before = [store |-> store, messages |-> << >>, saves |-> 0, user |-> userContent]

\* the edge function idle, for the specifications of the client
ServerIdle ==
  /\ sreq = [mode |-> "chat", messages |-> << >>, apiKey |-> TRUE]
  /\ spc = "off"
  /\ assistantMessage = [present |-> FALSE, content |-> "", tool_calls |-> << >>]
  /\ idx = 1
  /\ toolResults = << >>
  /\ mapData = Null
  /\ dispatched = << >>
  /\ gwCalls = << >>
  /\ gwStatus = << >>
  /\ body = << >>
  /\ fullContent = << >>
  /\ response = [status |-> 0, type |-> "none", body |-> [none |-> TRUE]]

\* the client not mounted, for the specification of the edge function
ClientIdle ==
  /\ InitClientCommon
  /\ conversation = FALSE
  /\ cmode = "chat"
  /\ isLoading = FALSE
  /\ messages = << >>
  /\ cpc = "off"
  /\ now = 0
  /\ asstId = 0
  /\ pending = << >>
  /\ turnOutcome = "none"
  /\ before = [store |-> store, messages |-> << >>, saves |-> 0, user |-> << >>]

NextClient ==
  \/ TypeInput
  \/ HandleSend
  \/ \E insertOk \in BOOLEAN : SaveUser(insertOk)
  \/ ImageFails
  \/ ImageOk
  \/ \E insertOk \in BOOLEAN : SaveImage(insertOk)
  \/ FetchFails
  \/ \E bytes \in ClientBodies : FetchOk(bytes)
  \/ \E n \in 1..Len(pending) : ReadChunk(n)
  \/ ReadFails
  \/ ReadDone
  \/ \E insertOk \in BOOLEAN : SaveAssistant(insertOk)

NextDecode ==
  \/ \E n \in 1..Len(pending) : ReadChunk(n)
  \/ ReadFails
  \/ ReadDone
  \/ \E insertOk \in BOOLEAN : SaveAssistant(insertOk)

(***************************************************************************)
(* The consumer of a streaming turn goes away while streamChat is reading. *)
(* streamChat (lines 176-260) passes no signal to fetch and never cancels  *)
(* the reader, and the only effect cleanup (lines 93-99) stops the speech  *)
(* recognition: the position of handleSend is left as it is.               *)
(***************************************************************************)
\* the messages of the conversation switched to, as loaded from the store
OtherMessages == << Message(101, "user", << "z" >>) >>

\* Index.tsx loadConversation (lines 91-95) for another conversation, and
\* the effect of lines 80-82 that replaces messages by initialMessages
SwitchConversation ==
  /\ mounted /\ cpc = "read" /\ abandoned # turn
  /\ abandoned' = turn
  /\ messages' = OtherMessages
  /\ UNCHANGED << uvars, mounted, fvars, svars, cmode, conversation, input, isLoading, store,
                  saveLog, requests, cpc, turn, now, asstId, buffer,
                  assistantContent, pending, delivered, deltas, last, turnOutcome,
                  before >>

\* the chat interface unmounts (the landing view, or a navigation away):
\* the cleanup of lines 93-99 runs
Unmount ==
  /\ mounted /\ cpc = "read"
  /\ mounted' = FALSE
  /\ abandoned' = turn
  /\ UNCHANGED << uvars, fvars, svars, cvars >>

NextAbandon ==
  \/ TypeInput
  \/ HandleSend
  \/ \E insertOk \in BOOLEAN : SaveUser(insertOk)
  \/ ImageFails
  \/ ImageOk
  \/ \E insertOk \in BOOLEAN : SaveImage(insertOk)
  \/ FetchFails
  \/ \E bytes \in ClientBodies : FetchOk(bytes)
  \/ \E n \in 1..Len(pending) : ReadChunk(n)
  \/ ReadFails
  \/ ReadDone
  \/ \E insertOk \in BOOLEAN : SaveAssistant(insertOk)
  \/ SwitchConversation
  \/ Unmount

(***************************************************************************)
(* getLocationData's parsing step applied on its own to a text.            *)
(***************************************************************************)
\* length of the texts given to the parsing step
MaxText == 6

\* the symbols the texts are made of
LocSymbols == { FENCE, JSONTAG, LF, ObjRoute1, NullText, Prose }

LocTexts == UNION { [1..n -> LocSymbols] : n \in 0..MaxText }

InitParse ==
  /\ fnName = "none"
  /\ fnArg \in LocTexts
  /\ fnResult = Null

\* lines 148-156 for the content fnArg
ApplyParseLocation ==
  /\ fnName = "none"
  /\ fnName' = "ParseLocation"
  /\ fnResult' = ParseLocation(fnArg)
  /\ UNCHANGED << uvars, avars, svars, cvars, fnArg >>

NextParse == ApplyParseLocation

(***************************************************************************)
(* processMessagesForVision applied on its own to a message list.          *)
(***************************************************************************)
\* messages of a list, and images embedded in one message
MaxMsgs == 2
MaxImages == 2

\* a content already in the multimodal array form
PartsContent ==
  [kind |-> "parts", parts |-> << [type |-> "text", text |-> "text"] >>]

VisionContents ==
  { StringContent(images, hasText) :
      images \in UNION { [1..n -> {"jpg", "png"}] : n \in 0..MaxImages },
      hasText \in BOOLEAN }
  \cup { PartsContent }

VisionMessages == [role : {"user", "assistant"}, content : VisionContents]

VisionLists == UNION { [1..n -> VisionMessages] : n \in 0..MaxMsgs }

InitVision ==
  /\ fnName = "none"
  /\ fnArg \in VisionLists
  /\ fnResult = Null

\* line 292 for the messages fnArg
ApplyVision ==
  /\ fnName = "none"
  /\ fnName' = "processMessagesForVision"
  /\ fnResult' = processMessagesForVision(fnArg)
  /\ UNCHANGED << uvars, avars, svars, cvars, fnArg >>

NextVision == ApplyVision

(***************************************************************************)
(* =============  The conversations of the page (Index.tsx)  ============  *)
(* A store call in flight is a task: who made it, the operation, and pc    *)
(* "store" while the store has not answered, "cont" once the function of   *)
(* useConversations has returned and its caller has not yet resumed.       *)
(* React runs the effects after a render; a render follows the state       *)
(* updates made after an await either at once or after the caller resumed  *)
(* (batched), and always before the next store call returns.               *)
(***************************************************************************)
\* conversations of the user when the page loads, and user operations
MaxConvs == 2
MaxOps == 2

Conv(id, title) == [id |-> id, title |-> title]

\* line 60: the title of a conversation created without one (mode chat)
NewTitle == "New Chat Chat"

Titles == { "t", "u" }

Task(who, op, id, title) ==
  [who |-> who, op |-> op, id |-> id, title |-> title, pc |-> "store",
   active |-> activeConversationId, result |-> 0]

NoOp == [op |-> "none", id |-> 0, title |-> "", ok |-> TRUE, result |-> 0,
         prev |-> << >>]

Ids(list) == { list[i].id : i \in 1..Len(list) }

Remove(seq, i) == SubSeq(seq, 1, i - 1) \o SubSeq(seq, i + 1, Len(seq))

\* the effects have run for the current conversation count
Rendered == depsLen = Len(conversations)

\* a create that adds the new conversation to the list although the store
\* reported an error
createdAlways(prev, data, ok) == << data >> \o prev

\* useConversations lines 65-71: the list after createConversation
created(prev, data, ok) == IF ok THEN << data >> \o prev ELSE prev

\* useConversations lines 80-84: the list after updateConversationTitle
updated(prev, id, title, ok) ==
  IF ok
  THEN [i \in 1..Len(prev) |->
          IF prev[i].id = id THEN [prev[i] EXCEPT !.title = title] ELSE prev[i]]
  ELSE prev

\* useConversations lines 93-95: the list after deleteConversation
deleted(prev, id, ok) ==
  IF ok THEN SelectSeq(prev, LAMBDA c : c.id # id) ELSE prev

\* Index.tsx lines 67-89: a render after which the initChat effect runs,
\* because conversations.length (or, the first time, convLoading) changed
Render ==
  /\ ~Rendered
  /\ depsLen' = Len(conversations)
  /\ IF activeConversationId # 0
       THEN UNCHANGED << tasks, creates >>
     ELSE IF Len(conversations) > 0
       THEN /\ tasks' = Append(tasks, Task("initChat", "getMessages",
                                           conversations[1].id, ""))
            /\ UNCHANGED creates
     ELSE /\ tasks' = Append(tasks, Task("initChat", "create", 0, NewTitle))
          /\ creates' = creates + 1
  /\ UNCHANGED << svars, cvars, fvars, avars, conversations, activeConversationId,
                  nextId, deletedActive, ops, lastOp >>

\* Index.tsx lines 131-132: the user deletes a conversation of the sidebar
HandleDeleteConversation(id) ==
  /\ Rendered /\ ops < MaxOps
  /\ id \in Ids(conversations)
  /\ \A i \in 1..Len(tasks) : tasks[i].who # "handleDelete"
  /\ tasks' = Append(tasks, Task("handleDelete", "delete", id, ""))
  /\ creates' = 0
  /\ deletedActive' = (id = activeConversationId)
  /\ ops' = ops + 1
  /\ UNCHANGED << svars, cvars, fvars, avars, conversations, activeConversationId,
                  depsLen, nextId, lastOp >>

\* Index.tsx lines 145-147: the user renames a conversation of the sidebar
HandleRenameConversation(id, title) ==
  /\ Rendered /\ ops < MaxOps
  /\ id \in Ids(conversations)
  /\ tasks' = Append(tasks, Task("handleRename", "update", id, title))
  /\ ops' = ops + 1
  /\ UNCHANGED << svars, cvars, fvars, avars, conversations, activeConversationId,
                  depsLen, nextId, creates, deletedActive, lastOp >>

\* useConversations lines 55-71, 75-84, 88-95 and 99-110: the store answers
\* the call of task i, and the function of useConversations returns
StoreReturns(i, ok) ==
  /\ Rendered
  /\ i \in 1..Len(tasks) /\ tasks[i].pc = "store"
  /\ \A j \in 1..Len(tasks) : tasks[j].pc # "cont"
  /\ LET t == tasks[i]
         data == Conv(nextId, t.title)
     IN /\ conversations' =
             CASE t.op = "create" -> created(conversations, data, ok)
               [] t.op = "update" -> updated(conversations, t.id, t.title, ok)
               [] t.op = "delete" -> deleted(conversations, t.id, ok)
               [] OTHER -> conversations
        /\ nextId' = IF t.op = "create" /\ ok THEN nextId + 1 ELSE nextId
        /\ tasks' = [tasks EXCEPT ![i].pc = "cont",
                                  ![i].result = IF t.op = "create" /\ ok
                                                THEN nextId ELSE 0]
        /\ lastOp' = [op |-> t.op, id |-> t.id, title |-> t.title, ok |-> ok,
                      result |-> IF t.op = "create" /\ ok THEN nextId ELSE 0,
                      prev |-> conversations]
  /\ UNCHANGED << svars, cvars, fvars, avars, activeConversationId, depsLen,
                  creates, deletedActive, ops >>

\* Index.tsx lines 133-141, 75-77, 81-84: the caller of task i resumes
Continue(i) ==
  /\ i \in 1..Len(tasks) /\ tasks[i].pc = "cont"
  /\ LET t == tasks[i]
     IN CASE t.who = "handleDelete" /\ t.op = "delete" ->
               IF t.active = t.id
               THEN /\ activeConversationId' = 0
                    /\ tasks' = [tasks EXCEPT
                                   ![i] = [Task("handleDelete", "create", 0, NewTitle)
                                             EXCEPT !.active = t.active]]
                    /\ creates' = creates + 1
               ELSE /\ tasks' = Remove(tasks, i)
                    /\ UNCHANGED << activeConversationId, creates >>
          [] t.op = "create" ->
               /\ activeConversationId' =
                    IF t.result # 0 THEN t.result ELSE activeConversationId
               /\ tasks' = Remove(tasks, i)
               /\ UNCHANGED creates
          [] t.op = "getMessages" ->
               /\ activeConversationId' = t.id
               /\ tasks' = Remove(tasks, i)
               /\ UNCHANGED creates
          [] OTHER ->
               /\ tasks' = Remove(tasks, i)
               /\ UNCHANGED << activeConversationId, creates >>
  /\ UNCHANGED << svars, cvars, fvars, avars, conversations, depsLen, nextId,
                  deletedActive, ops, lastOp >>

\* the page when fetchConversations has returned the user's conversations
\* and convLoading has just become false
InitConversations ==
  /\ \E n \in 0..MaxConvs : conversations = [i \in 1..n |-> Conv(i, "t")]
  /\ activeConversationId = 0
  /\ depsLen = -1
  /\ tasks = << >>
  /\ nextId = MaxConvs + 1
  /\ creates = 0
  /\ deletedActive = FALSE
  /\ ops = 0
  /\ lastOp = [NoOp EXCEPT !.prev = conversations]

\* the page not shown, for the other specifications
ConversationsIdle ==
  /\ conversations = << >>
  /\ activeConversationId = 0
  /\ depsLen = 0
  /\ tasks = << >>
  /\ nextId = 1
  /\ creates = 0
  /\ deletedActive = FALSE
  /\ ops = MaxOps
  /\ lastOp = NoOp

NextConversations ==
  \/ Render
  \/ \E id \in Ids(conversations) : HandleDeleteConversation(id)
  \/ \E id \in Ids(conversations), title \in Titles : HandleRenameConversation(id, title)
  \/ \E i \in 1..Len(tasks), ok \in BOOLEAN : StoreReturns(i, ok)
  \/ \E i \in 1..Len(tasks) : Continue(i)

\* no function applied on its own
FnIdle ==
  /\ fnName = "none"
  /\ fnArg = << >>
  /\ fnResult = Null

\* the chat interface mounted and showing the conversation of its turns
Attached ==
  /\ abandoned = 0
  /\ mounted = TRUE

\* the chat interface alone
InitSpecClient == InitClient /\ ServerIdle /\ FnIdle /\ Attached /\ ConversationsIdle

SpecClient == InitSpecClient /\ [][NextClient]_vars

\* the read loop alone
InitSpecDecode == InitDecode /\ ServerIdle /\ FnIdle /\ Attached /\ ConversationsIdle

SpecDecode == InitSpecDecode /\ [][NextDecode]_vars


\* the parsing step alone
InitSpecParse == InitParse /\ ServerIdle /\ ClientIdle /\ Attached /\ ConversationsIdle

SpecParse == InitSpecParse /\ [][NextParse]_vars

\* the edge function alone
InitSpecServer == InitServer /\ ClientIdle /\ FnIdle /\ Attached /\ ConversationsIdle

SpecServer == InitSpecServer /\ [][NextServer]_vars

\* the rewrite of the messages alone
InitSpecVision == InitVision /\ ServerIdle /\ ClientIdle /\ Attached /\ ConversationsIdle

SpecVision == InitSpecVision /\ [][NextVision]_vars

\* the steps of a turn that the runtime takes once the awaited promise
\* settles: a save, the image request, the fetch or a read returns
TurnStep ==
  \/ \E insertOk \in BOOLEAN : SaveUser(insertOk)
  \/ ImageFails
  \/ ImageOk
  \/ \E insertOk \in BOOLEAN : SaveImage(insertOk)
  \/ FetchFails
  \/ \E bytes \in ClientBodies : FetchOk(bytes)
  \/ ReadFails
  \/ ReadDone
  \/ \E insertOk \in BOOLEAN : SaveAssistant(insertOk)
  \/ \E n \in 1..Len(pending) : ReadChunk(n)

\* the chat interface alone, every awaited promise settling eventually; the
\* user is not obliged to type or to send
FairSpecClient == InitSpecClient /\ [][NextClient]_vars /\ WF_vars(TurnStep)

\* the conversations of the page alone
InitSpecConversations ==
  InitConversations /\ ServerIdle /\ ClientIdle /\ FnIdle /\ Attached

SpecConversations == InitSpecConversations /\ [][NextConversations]_vars

\* the chat interface and a consumer that may go away during a read
InitSpecAbandon == InitClient /\ ServerIdle /\ FnIdle /\ Attached /\ ConversationsIdle

SpecAbandon == InitSpecAbandon /\ [][NextAbandon]_vars

(***************************************************************************)
(* Properties of the edge function.                                        *)
(***************************************************************************)
\* the tool-result messages at the end of a final request
ToolTail(call) == Slice(call.messages, Len(sreq.messages) + 2)

HasCall(kind) == \E k \in 1..Len(gwCalls) : gwCalls[k].call = kind

\* C1: the tool round pushes exactly one tool-result message per tool call
\* processed, each with the tool_call_id of its call, and the final request
\* carries one tool-result message per tool call of the initial answer, in the
\* order in which the gateway returned the calls.
C1_OneResultPerToolCallInOrder ==
  LET calls == assistantMessage.tool_calls
  IN /\ Len(toolResults) <= Len(calls)
     /\ spc = "tools" => Len(toolResults) = idx - 1
     /\ \A i \in 1..Len(toolResults) :
          /\ toolResults[i].role = "tool"
          /\ toolResults[i].tool_call_id = calls[i].id
     /\ \A k \in 1..Len(gwCalls) :
          gwCalls[k].call = "final" =>
            /\ Len(ToolTail(gwCalls[k])) = Len(calls)
            /\ \A i \in 1..Len(calls) :
                 /\ ToolTail(gwCalls[k])[i].role = "tool"
                 /\ ToolTail(gwCalls[k])[i].tool_call_id = calls[i].id

\* a final request was issued after a round of two calls of different tools
C1_Witness ==
  /\ HasCall("final")
  /\ Len(assistantMessage.tool_calls) = 2
  /\ assistantMessage.tool_calls[1].name # assistantMessage.tool_calls[2].name

GetLocationDispatched ==
  \E i \in 1..Len(dispatched) : dispatched[i].name = "get_location"

\* C4: a successful turn answers with the single JSON object {content, mapData}
\* exactly when a get_location call was dispatched in the tool round, and with
\* the event stream of the final gateway call otherwise.
C4_MapJsonIffLocationDispatched ==
  (spc = "responded" /\ response.status = 200) =>
    IF GetLocationDispatched
    THEN /\ response.type = "json"
         /\ response.body = [content |-> fullContent, mapData |-> mapData]
    ELSE response.type = "event-stream"

\* C5: with no tool call in the initial answer no tool is dispatched and the
\* only further gateway call is one streaming call whose message list is that of
\* the initial call, [system prompt] + processed messages; with tool calls the
\* handler is in the tool round and issues no such call.
C5_NoToolsStreamsSameRequest ==
  LET noTools == Len(assistantMessage.tool_calls) = 0
  IN /\ spc = "stream" => /\ noTools
                          /\ Len(gwCalls) = 1 /\ gwCalls[1].call = "initial"
     /\ (noTools /\ spc # "start") =>
          /\ dispatched = << >> /\ toolResults = << >>
          /\ Len(gwCalls) <= 2
          /\ ~HasCall("final")
     /\ \A k \in 1..Len(gwCalls) :
          gwCalls[k].call = "stream" =>
            /\ k = 2 /\ noTools
            /\ gwCalls[1].call = "initial" /\ gwStatus[1] = 200
            /\ gwCalls[k].stream = TRUE
            /\ gwCalls[k].messages = gwCalls[1].messages
            /\ gwCalls[k].messages =
                 << [role |-> "system", content |-> systemPrompt(sreq.mode)] >>
                   \o processMessagesForVision(sreq.messages)
     /\ (noTools /\ spc = "responded" /\ Len(gwStatus) >= 1 /\ gwStatus[1] = 200) =>
          Len(gwCalls) = 2 /\ gwCalls[2].call = "stream"
     /\ spc \in {"tools", "final", "mapread"} => ~noTools /\ ~HasCall("stream")

\* the no-tool turn has answered with the stream of its second call
C5_Witness ==
  /\ spc = "responded" /\ response.type = "event-stream"
  /\ Len(assistantMessage.tool_calls) = 0
  /\ Len(gwCalls) = 2

\* C6: after a tool round there is exactly one final gateway call; its message
\* list is [system, processed messages, the assistant message with its tool
\* calls, the tool-result messages], it streams, it declares no tools, and
\* nothing is dispatched and no gateway call is made after it.
C6_OneFinalCallNoTools ==
  /\ \A k \in 1..Len(gwCalls) :
       gwCalls[k].call = "final" =>
         /\ k = 2 /\ Len(gwCalls) = 2
         /\ gwCalls[1].call = "initial"
         /\ gwCalls[k].stream = TRUE
         /\ gwCalls[k].tools = {} /\ gwCalls[k].tool_choice = "undefined"
         /\ gwCalls[k].messages =
              << [role |-> "system", content |-> systemPrompt(sreq.mode)] >>
                \o processMessagesForVision(sreq.messages)
                \o << assistantMessage >> \o toolResults
         /\ Len(toolResults) = Len(assistantMessage.tool_calls)
         /\ Len(dispatched) <= Len(assistantMessage.tool_calls)
         /\ spc \in {"mapread", "responded"}
  /\ (spc = "responded" /\ response.status = 200
        /\ Len(assistantMessage.tool_calls) > 0) =>
       Len(gwCalls) = 2 /\ gwCalls[2].call = "final"

\* the turn has answered after a tool round and a final call whose stream
\* holds a tool-call delta
C6_Witness ==
  /\ spc = "responded" /\ response.status = 200
  /\ HasCall("final")
  /\ Len(toolResults) = 2

\* what a degraded tool puts in its tool result
Placeholders ==
  { Text("I couldn't complete the web search at this time."),
    Text("I couldn't retrieve weather data at this time."),
    JsonText([type |-> "object", message |-> "Couldn't find location data.",
              locations |-> 0, route |-> FALSE]) }

\* C7: a tool call whose own request failed never fails the turn: its tool
\* result is a placeholder and the round goes on.
C7_ToolFailureAbsorbed ==
  \A i \in 1..Len(dispatched) :
    dispatched[i].outcome # "ok" =>
      /\ Len(toolResults) >= dispatched[i].call
      /\ toolResults[dispatched[i].call].content \in Placeholders

\* C8: a gateway completion call answered 429 ends the turn with status 429
\* and the retry-later message, one answered 402 ends it with status 402, any
\* other failure status ends it with the gateway error, and no gateway call
\* follows.
C8_GatewayErrorsMapped ==
  \A k \in 1..Len(gwStatus) :
    gwStatus[k] \in ErrorStatus =>
      /\ k = Len(gwCalls)
      /\ spc = "responded"
      /\ response.type = "json"
      /\ response.status = (IF gwStatus[k] \in {429, 402} THEN gwStatus[k] ELSE 500)
      /\ gwStatus[k] = 429 =>
           response.body = [error |-> "Rate limit exceeded. Please try again later."]
      /\ gwStatus[k] = 402 =>
           response.body = [error |-> "Usage limit reached. Please add credits."]

(***************************************************************************)
(* Properties of the client.                                               *)
(***************************************************************************)
\* the decode loop run once over everything delivered so far
Whole == Decode(<< >>, << >>, delivered)

\* the body has been read to its end
StreamEnded == cpc = "read" /\ pending = << >>

\* C2: for every stream and every way of cutting it into chunks, once the
\* whole stream has been read the content deltas applied, in order, and the
\* final assistantContent are those of the whole stream arriving as one chunk.
C2_ChunkingIndependent ==
  StreamEnded => /\ deltas = Whole.deltas
                 /\ assistantContent = Whole.content

\* C3: when a pass of the decode loop meets a data line whose payload does
\* not parse, no error is raised, the line stays at the head of the buffer
\* and no further line is taken from the buffer in that pass.
C3_ParseFailureKeepsData ==
  (cpc = "read" /\ last.failed # << >>) =>
     /\ turnOutcome = "running"
     /\ StartsWith(buffer, last.failed[1] \o << LF >>)
     /\ ~last.afterFail

\* the messages the turn has added to the in-memory list
Added == Slice(messages, Len(before.messages))

\* the calls of onSaveMessage the turn has made
TurnSaves == Slice(saveLog, before.saves)

userEntry == [role |-> "user", content |-> before.user]

\* C9: a failed turn persists no assistant message: the store is the store
\* of before the turn, followed by the user's message if saving it worked,
\* and onSaveMessage was called for the user's message only.
C9_FailedTurnPersistsNoAssistant ==
  turnOutcome = "failed" =>
     /\ store \in {before.store, Append(before.store, userEntry)}
     /\ conversation = FALSE => store = before.store
     /\ TurnSaves = << userEntry >>

\* a turn failed after content had been streamed and the user's message stored
C9_Witness ==
  /\ turnOutcome = "failed"
  /\ deltas # << >>
  /\ cmode = "chat"
  /\ store = Append(before.store, userEntry)

\* C10: after the error handling of a failed turn the in-memory list holds
\* no assistant message of that turn, with or without streamed content.
C10_FailedTurnDiscardsPartial ==
  turnOutcome = "failed" =>
     \A i \in 1..Len(Added) : Added[i].role # "assistant"

\* a turn is in flight
InFlight == cpc \notin {"idle", "off"}

\* C11: turns are serialized: while a turn is in flight isLoading is set, and
\* a new turn starts only when no turn is in flight, whatever the user types
\* or sends meanwhile.
C11_TurnsSerialized ==
  /\ [](InFlight => isLoading)
  /\ [][turn' # turn => (~InFlight /\ turnOutcome # "running")]_vars

\* the user has typed the next message while a reply is streaming
C11_Witness ==
  /\ cpc = "read" /\ deltas # << >>
  /\ Trim(input) # << >>
  /\ turn < MaxTurns

\* a complete data line with the terminal payload has been delivered (the
\* decode of the delivered bytes as one chunk stops on it)
DoneRead == Whole.done

\* C12: once the [DONE] line has been read nothing that follows it in the
\* stream is applied: the deltas and the accumulated content are those of the
\* lines before the first [DONE].
C12_NothingAfterDone ==
  (cpc = "read" /\ DoneRead) =>
     /\ assistantContent = Whole.content
     /\ deltas = Whole.deltas

(***************************************************************************)
(* More properties of the edge function.                                   *)
(***************************************************************************)
\* the tool call at position i has a name that is none of the three tools
UnknownAt(i) == assistantMessage.tool_calls[i].name \notin tools

emptyResult(i) ==
  [role |-> "tool", tool_call_id |-> assistantMessage.tool_calls[i].id,
   content |-> Text("")]

NotJson(content) == ~ParseJSON(Trim(StripFence(content))).ok

\* the payload of line 155 for a raw model output
Degraded(content) ==
  [type |-> "object", message |-> content, locations |-> 0, route |-> FALSE]

\* C14: a get_location answer that is not JSON after fence stripping does
\* not fail the turn: its tool result is {message: raw output, locations: []},
\* it is the pending mapData until a later get_location call, and a final
\* call carries it as the call's tool result.
C14_MalformedLocationDegrades ==
  \A k \in 1..Len(dispatched) :
    LET d == dispatched[k]
    IN (d.name = "get_location" /\ d.outcome = "ok" /\ NotJson(d.content)) =>
         /\ Len(toolResults) >= d.call
         /\ toolResults[d.call].content = JsonText(Degraded(d.content))
         /\ k = Len(dispatched) => mapData = Degraded(d.content)
         /\ \A c \in 1..Len(gwCalls) :
              gwCalls[c].call = "final" =>
                ToolTail(gwCalls[c])[d.call].content = JsonText(Degraded(d.content))

\* the final call was issued after a get_location answer in prose
C14_Witness ==
  /\ HasCall("final")
  /\ \E k \in 1..Len(dispatched) :
       /\ dispatched[k].name = "get_location" /\ dispatched[k].outcome = "ok"
       /\ NotJson(dispatched[k].content)
       /\ StartsWith(dispatched[k].content, << Prose >>)

(***************************************************************************)
(* Properties of getLocationData's parsing step.                           *)
(***************************************************************************)
\* the JSON texts of the model
JsonAtoms == { ObjRoute2, ObjRoute1, ObjPlain, NullText }

\* white space between a fence and the JSON text
Gaps == { << >>, << LF >> }

\* J in a code fence, with or without the json tag
Fenced(J) ==
  { open \o g1 \o << J >> \o g2 \o << FENCE >> :
      open \in { << FENCE, JSONTAG >>, << FENCE >> }, g1 \in Gaps, g2 \in Gaps }

\* C15: the parsing step returns for a JSON text in a code fence (with or
\* without the json tag) the payload it returns for the text without fence,
\* which is the value of the text; stripping leaves an unfenced JSON text as
\* it is.
C15_FenceStrippingTransparent ==
  \A J \in JsonAtoms :
    /\ StripFence(<< J >>) = << J >>
    /\ (fnName = "ParseLocation" /\ fnArg \in Fenced(J) \cup { << J >> }) =>
         /\ fnResult = ParseLocation(<< J >>)
         /\ fnResult = ParseJSON(<< J >>).value

\* the parsing step was applied to a JSON object in a json-tagged fence
C15_Witness ==
  /\ fnName = "ParseLocation"
  /\ fnArg = << FENCE, JSONTAG, LF, ObjRoute1, LF, FENCE >>
  /\ fnResult.type = "object" /\ fnResult.locations = 1

\* the handler has answered with the JSON object of the map path
MapDelivered ==
  spc = "responded" /\ response.status = 200 /\ response.type = "json"

\* C16: a payload delivered as mapData that has a route has at least two
\* locations.
C16_RouteHasTwoLocations ==
  MapDelivered =>
    (response.body.mapData.route => response.body.mapData.locations >= 2)

\* the initial call answered 200 with neither tool calls nor content
EmptyInitialAnswer ==
  /\ Len(gwStatus) >= 1 /\ gwStatus[1] = 200
  /\ Len(assistantMessage.tool_calls) = 0
  /\ assistantMessage.content = ""

\* C17: after an initial answer with neither tool calls nor content no
\* streaming call is issued and the turn is answered with an error.
C17_EmptyResponseFails ==
  EmptyInitialAnswer =>
    /\ ~HasCall("stream")
    /\ spc = "responded" => response.status >= 400

\* the content deltas of FinalStream, in arrival order (FrameA, FrameB)
FinalStreamContent == << "a" >> \o << "b" >>

\* C18: the content of the JSON result of the map path is the concatenation
\* of the content deltas of the final stream, however the stream is cut into
\* chunks.
C18_MapContentComplete ==
  MapDelivered => response.body.content = FinalStreamContent

(***************************************************************************)
(* More properties of the client.                                          *)
(***************************************************************************)
\* the content field of the JSON object MAPJSON
Narration == << "narration" >>

\* a chat turn has ended without error after reading the map JSON body
MapTurnDone ==
  /\ cmode = "chat" /\ turnOutcome = "done"
  /\ delivered = << MAPJSON >>

\* C19: after a turn answered with the JSON object {content, mapData} the
\* assistant message of the turn has the narration as its content, and
\* onSaveMessage was called with it.
C19_MapJsonReachesSession ==
  MapTurnDone =>
    /\ \E i \in 1..Len(Added) :
         Added[i].role = "assistant" /\ Added[i].content = Narration
    /\ TurnSaves = << userEntry, [role |-> "assistant", content |-> Narration] >>

\* the in-flight assistant message of the turn
Placeholder == CHOOSE m \in { messages[i] : i \in 1..Len(messages) } : m.id = asstId

\* C20: deltas are applied in arrival order: the accumulated content is the
\* concatenation of the deltas applied so far, each content notified in a
\* pass extends the one notified before it and the last one is the
\* accumulated content, and from one read to the next the accumulated content
\* and the content of the in-flight assistant message only grow at the end.
C20_DeltasAppendInOrder ==
  /\ [](cpc = "read" =>
          /\ assistantContent = Concat(deltas)
          /\ Placeholder.content = assistantContent
          /\ \A i \in 1..Len(last.notified) :
               /\ i > 1 => /\ StartsWith(last.notified[i], last.notified[i - 1])
                           /\ Len(last.notified[i]) > Len(last.notified[i - 1])
               /\ i = Len(last.notified) => last.notified[i] = assistantContent)
  /\ [][(cpc = "read" /\ cpc' = "read") =>
          /\ StartsWith(assistantContent', assistantContent)
          /\ StartsWith(deltas', deltas)
          /\ StartsWith(Placeholder'.content, Placeholder.content)]_vars

\* two deltas have been applied in one pass of the loop
C20_Witness ==
  /\ cpc = "read"
  /\ Len(last.notified) = 2
  /\ deltas = << << "a" >>, << "b" >> >>

(***************************************************************************)
(* Properties of an abandoned turn.                                        *)
(***************************************************************************)
\* the consumer went away during the read of the turn in flight
Abandoned == abandoned # 0 /\ abandoned = turn

\* C21: once the consumer has abandoned a streaming turn, the stream is
\* released and no further delta callback fires: no more of the response
\* body is read, no content delta is applied (setMessages) and onSaveMessage
\* is not called.
C21_AbandonReleasesStream ==
  [][Abandoned => (pending' = pending /\ deltas' = deltas /\ saveLog' = saveLog)]_vars

(***************************************************************************)
(* Properties of the tool declaration.                                     *)
(***************************************************************************)
\* C22: the initial gateway call is the first call of the handler; it
\* attaches the full tool schema (web_search, get_location, get_weather) with
\* tool_choice auto in every mode other than images, and neither tools nor
\* tool_choice in the images mode; no other gateway call of the handler
\* declares tools.
C22_ToolsOnInitialCallOnly ==
  /\ \A k \in 1..Len(gwCalls) :
       IF gwCalls[k].call = "initial"
       THEN /\ k = 1
            /\ sreq.mode # "images" =>
                 /\ gwCalls[k].tools = {"web_search", "get_location", "get_weather"}
                 /\ gwCalls[k].tool_choice = "auto"
            /\ sreq.mode = "images" =>
                 /\ gwCalls[k].tools = {}
                 /\ gwCalls[k].tool_choice = "undefined"
       ELSE /\ k > 1
            /\ gwCalls[k].tools = {}
            /\ gwCalls[k].tool_choice = "undefined"
  /\ gwCalls # << >> => gwCalls[1].call = "initial"

\* a turn outside the images mode has made its initial call with the tool
\* schema and a later call without it
C22_Witness ==
  /\ sreq.mode # "images"
  /\ Len(gwCalls) = 2
  /\ gwCalls[1].tools = {"web_search", "get_location", "get_weather"}
  /\ gwCalls[2].tools = {}

(***************************************************************************)
(* Properties of processMessagesForVision.                                 *)
(***************************************************************************)
\* the message is a user message whose string content embeds image data
EmbedsImages(msg) ==
  msg.role = "user" /\ msg.content.kind = "string" /\ Len(msg.content.images) > 0

\* C23: processMessagesForVision keeps the number, the order and the roles
\* of the messages; it rewrites exactly the user messages whose string
\* content embeds base64 image data, into one image part per embedded image
\* (in order) followed by exactly one text part, and returns every other
\* message unchanged.
C23_VisionRewritesOnlyImageMessages ==
  fnName = "processMessagesForVision" =>
    /\ Len(fnResult) = Len(fnArg)
    /\ \A i \in 1..Len(fnArg) :
         /\ fnResult[i].role = fnArg[i].role
         /\ IF EmbedsImages(fnArg[i])
            THEN LET parts == fnResult[i].content.parts
                     n == Len(fnArg[i].content.images)
                 IN /\ fnResult[i].content.kind = "parts"
                    /\ Len(parts) = n + 1
                    /\ \A j \in 1..n : parts[j].type = "image_url"
                    /\ parts[n + 1].type = "text"
            ELSE fnResult[i] = fnArg[i]

\* the function has rewritten a user message with two images and has left
\* alone an assistant message whose string content embeds an image
C23_Witness ==
  /\ fnName = "processMessagesForVision"
  /\ Len(fnArg) = 2
  /\ fnArg[1].role = "assistant" /\ fnArg[1].content.kind = "string"
  /\ Len(fnArg[1].content.images) = 1
  /\ fnResult[1] = fnArg[1]
  /\ EmbedsImages(fnArg[2]) /\ Len(fnArg[2].content.images) = 2
  /\ Len(fnResult[2].content.parts) = 3

(***************************************************************************)
(* Properties of the persistence calls of a turn.                          *)
(***************************************************************************)
\* the calls of onSaveMessage of the turn for an assistant message
AssistantSaves == SelectSeq(TurnSaves, LAMBDA e : e.role = "assistant")

\* C24: in every turn the save of the user message is the first save and has
\* returned when the request is sent to the backend; the assistant message
\* is saved at most once, in a chat turn only when the stream has been read
\* to its end and the accumulated content is not empty; while the request is
\* pending or the stream is being read nothing of the assistant is saved or
\* stored.
C24_SavesOrdered ==
  /\ [](/\ Len(AssistantSaves) <= 1
        /\ TurnSaves # << >> => TurnSaves[1] = userEntry
        /\ cpc \in {"saveUser", "fetch", "image", "read"} =>
             /\ TurnSaves = << userEntry >>
             /\ store \in {before.store, Append(before.store, userEntry)})
  /\ [][requests' # requests =>
          /\ cpc = "saveUser" /\ TurnSaves = << userEntry >>
          /\ Len(requests') = Len(requests) + 1]_vars
  /\ [][(saveLog' # saveLog /\ saveLog'[Len(saveLog')].role = "assistant") =>
          /\ saveLog' = Append(saveLog, saveLog'[Len(saveLog')])
          /\ cmode = "images" => cpc = "image"
          /\ cmode # "images" =>
               /\ cpc = "read" /\ pending = << >> /\ delivered # << >>
               /\ assistantContent # << >>
               /\ saveLog'[Len(saveLog')].content = assistantContent]_vars

\* a chat turn has ended after its stream was read to the end, with the
\* user message and then the assistant message stored
C24_Witness ==
  /\ turnOutcome = "done" /\ cmode = "chat"
  /\ pending = << >> /\ deltas # << >>
  /\ TurnSaves = << userEntry, [role |-> "assistant", content |-> assistantContent] >>
  /\ store = before.store \o TurnSaves

(***************************************************************************)
(* Termination of a turn.                                                  *)
(***************************************************************************)
\* the turn has ended and the interface is idle again
TurnEnded == cpc = "idle" /\ turnOutcome \in {"done", "failed"} /\ ~isLoading

\* C25: every turn started by handleSend eventually ends as done or failed
\* with isLoading false again, whether or not the body held a [DONE] line,
\* provided every awaited save, request and read settles; isLoading is false
\* whenever no turn is in flight, and a send is accepted again once a turn
\* has ended and a message is typed.
C25_TurnTerminates ==
  /\ InFlight ~> TurnEnded
  /\ [](~InFlight => ~isLoading)
  /\ []((TurnEnded /\ Trim(input) # << >>) => ENABLED HandleSend)

\* a turn whose body held no [DONE] line has ended and the next message is
\* typed
C25_Witness ==
  /\ TurnEnded /\ turnOutcome = "done"
  /\ delivered = FrameComment
  /\ Trim(input) # << >>

(***************************************************************************)
(* Properties of the conversations of the page.                            *)
(***************************************************************************)
\* C26: deleting the active conversation makes at most one createConversation
\* call, whatever the order of handleDeleteConversation's steps and the runs
\* of the initChat effect, also when the deleted conversation was the last.
C26_OneReplacementConversation ==
  deletedActive => creates <= 1

(***************************************************************************)
(* Properties of the placeholder after a turn.                             *)
(***************************************************************************)
\* C27: once a turn has ended (isLoading false again), with or without an
\* error, the in-memory list holds no assistant message with empty content:
\* a placeholder of streamChat that received no content delta is removed.
C27_NoEmptyPlaceholderAfterTurn ==
  (~isLoading /\ turnOutcome \in {"done", "failed"}) =>
     \A i \in 1..Len(messages) :
        ~(messages[i].role = "assistant" /\ messages[i].content = << >>)

(***************************************************************************)
(* Properties of the tool arguments.                                       *)
(***************************************************************************)
\* the arguments string of the i-th tool call is not valid JSON
MalformedAt(i) == assistantMessage.tool_calls[i].arguments = "malformed"

\* C28: when the arguments string of a tool call of the round is not valid
\* JSON, no tool call at or after that position is dispatched or gets a tool
\* result, no final gateway call is made, and the turn is answered with a
\* status-500 JSON error; the loop, on reaching that call, answers at once.
\* A call of a known tool with a missing or empty arguments string is
\* dispatched like one with an argument object.
C28_MalformedArgumentsFail ==
  /\ [](\A p \in 1..Len(assistantMessage.tool_calls) :
          MalformedAt(p) =>
            /\ \A k \in 1..Len(dispatched) : dispatched[k].call < p
            /\ Len(toolResults) < p
            /\ ~HasCall("final")
            /\ spc = "responded" =>
                 /\ response.status = 500 /\ response.type = "json"
                 /\ "error" \in DOMAIN response.body)
  /\ [][(spc = "tools" /\ MalformedAt(idx)) =>
          /\ spc' = "responded" /\ response'.status = 500
          /\ UNCHANGED << dispatched, toolResults, gwCalls >>]_vars
  /\ [][(spc = "tools" /\ toolCall.arguments = "empty" /\ toolCall.name \in tools) =>
          /\ Len(dispatched') = Len(dispatched) + 1
          /\ dispatched'[Len(dispatched')].call = idx]_vars

\* a round whose first call had an empty arguments string and was
\* dispatched, and whose second call had malformed arguments, was answered
\* with the error
C28_Witness ==
  /\ spc = "responded" /\ response.status = 500
  /\ Len(assistantMessage.tool_calls) = 2
  /\ assistantMessage.tool_calls[1].arguments = "empty"
  /\ MalformedAt(2)
  /\ Len(dispatched) = 1 /\ dispatched[1].outcome = "ok"
  /\ Len(toolResults) = 1

(***************************************************************************)
(* Properties of a round with several get_location calls.                  *)
(***************************************************************************)
\* the get_location calls that have returned, as positions of dispatched
LocDispatches ==
  { k \in 1..Len(dispatched) :
      dispatched[k].name = "get_location" /\ dispatched[k].outcome # "threw" }

\* what getLocationData returned to the k-th dispatch
LocPayload(k) ==
  getLocationData([ok |-> dispatched[k].outcome = "ok",
                   content |-> dispatched[k].content])

LastLoc == CHOOSE k \in LocDispatches : \A j \in LocDispatches : j <= k

\* C29: every get_location call of a round has its own tool-result message,
\* with its id and its own payload; mapData is the payload of the latest
\* get_location call, and the mapData of a map JSON response is the payload
\* of the last get_location call of the round, not that of an earlier one.
C29_LastLocationWins ==
  /\ \A k \in LocDispatches :
       LET i == dispatched[k].call
       IN /\ Len(toolResults) >= i
          /\ toolResults[i] = [role |-> "tool",
                               tool_call_id |-> assistantMessage.tool_calls[i].id,
                               content |-> JsonText(LocPayload(k))]
  /\ mapData = IF LocDispatches = {} THEN Null ELSE LocPayload(LastLoc)
  /\ MapDelivered =>
       /\ LocDispatches # {}
       /\ response.body.mapData = LocPayload(LastLoc)

\* a round of two get_location calls with different payloads was answered
\* with the map JSON response
C29_Witness ==
  /\ MapDelivered
  /\ Cardinality(LocDispatches) = 2
  /\ LocPayload(1) # LocPayload(2)
  /\ Truthy(LocPayload(1))
  /\ response.body.mapData = LocPayload(2)

(***************************************************************************)
(* Properties of the conversation list of useConversations.                *)
(***************************************************************************)
\* the store call that returned last was a createConversation,
\* updateConversationTitle or deleteConversation
Mutation == lastOp.op \in {"create", "update", "delete"}

\* C30: the conversation list changes only when createConversation,
\* updateConversationTitle or deleteConversation returns from a store call
\* that succeeded.  After an error the list is the one of before the call,
\* and createConversation has returned null; after a success create has put
\* the new conversation in front, update has changed the title of the
\* conversation with that id and nothing else, and delete has removed the
\* conversation with that id and nothing else.
C30_ListFollowsStore ==
  /\ [](LET prev == lastOp.prev
        IN /\ (~Mutation \/ ~lastOp.ok) => conversations = prev
           /\ (lastOp.op = "create" /\ ~lastOp.ok) => lastOp.result = 0
           /\ (lastOp.op = "create" /\ lastOp.ok) =>
                /\ lastOp.result # 0 /\ lastOp.result \notin Ids(prev)
                /\ conversations = << Conv(lastOp.result, lastOp.title) >> \o prev
           /\ (lastOp.op = "update" /\ lastOp.ok) =>
                /\ Len(conversations) = Len(prev)
                /\ \A i \in 1..Len(prev) :
                     /\ conversations[i].id = prev[i].id
                     /\ conversations[i].title =
                          IF prev[i].id = lastOp.id THEN lastOp.title ELSE prev[i].title
           /\ (lastOp.op = "delete" /\ lastOp.ok) =>
                \/ lastOp.id \notin Ids(prev) /\ conversations = prev
                \/ \E i \in 1..Len(prev) :
                     prev[i].id = lastOp.id /\ conversations = Remove(prev, i))
  /\ [][conversations' # conversations =>
          /\ lastOp' # lastOp
          /\ lastOp'.ok /\ lastOp'.op \in {"create", "update", "delete"}
          /\ lastOp'.prev = conversations]_vars

\* the store has reported an error for the delete of a conversation of the
\* list, while a rename of another one is waiting
C30_Witness ==
  /\ lastOp.op = "delete" /\ ~lastOp.ok
  /\ lastOp.id \in Ids(conversations)
  /\ Len(conversations) = 2
  /\ \E i \in 1..Len(tasks) : tasks[i].op = "update" /\ tasks[i].pc = "store"

====
